---- MODULE Spec2Model ----
(***************************************************************************)
(* Model of the Gemini pull-request reviewer action.                       *)
(*                                                                         *)
(* Two pipelines live in the repository: the modular one of                *)
(* src/src/main.js (run -> initializeAction, fetchCodeDiff,                *)
(* getGeminiReview, postReviewComments) and the monolithic run() of        *)
(* src/unnamed/part_000.  The variable impl says which of the two an       *)
(* invocation executes.  Every awaited call (pulls.get, fetch, setTimeout, *)
(* pulls.createReview, issues.createComment) is one step; the answer of    *)
(* the collaborator is drawn from a small set in that step.                *)
(***************************************************************************)
EXTENDS Integers, Sequences, FiniteSets, TLC

VARIABLES
    impl,              \* "main" (src/src/main.js) or "legacy" (src/unnamed/part_000)
    pc,                \* position of the invocation
    eventName,         \* github.context.eventName
    codeDiff,          \* diffResponse.data once fetched
    i,                 \* loop counter of the retry loop
    rawJsonText,       \* let rawJsonText
    aiReviewComments,  \* value handed from the model step to the posting step
    calls,             \* every outward call made so far, in order
    failed,            \* messages passed to core.setFailed, in order
    reference,         \* what the last invocation whose first model call
                       \* succeeded was seen to do (history)
    peer               \* what the modular pipeline was seen to do on the
                       \* event the monolithic one handles next (history)

vars == <<impl, pc, eventName, codeDiff, i, rawJsonText, aiReviewComments,
          calls, failed, reference, peer>>

------------------------------------------------------------------------------
(* Bounds of the model *)

MaxFindings == 2     \* longest findings array the model endpoint answers with
MaxDiffLen == 12     \* longest diff text pulls.get answers with

(* Program constants *)

MinDiffSize == 10    \* codeDiff.length < 10
MaxTries_OneMore == 3 + 1   \* variant: one attempt more
MaxTries == 3        \* for (let i = 0; i < 3; i++)
BackoffUnit == 2000  \* setTimeout(resolve, 2000 * (i + 1))
Unprocessable == 422 \* error.status === 422

Impls == {"main", "legacy"}
EventNames == {"pull_request", "push"}
ApiKey == "SECRET-KEY"
Model == "gemini-2.5-flash"

------------------------------------------------------------------------------
(* JavaScript values produced by JSON.parse *)

JsNull == [t |-> "null"]
JsNumber == [t |-> "number"]
JsObject(p, l, c) == [t |-> "object", path |-> p, line |-> l, comment |-> c]
JsArray(es) == [t |-> "array", elems |-> es]

F1 == JsObject("a.py", 42, "x")
F2 == JsObject("b.js", 7, "y")
Findings == {F1, F2}

(* Raw response text: a sequence of JSON tokens. *)
Tok(s) == [tok |-> s]
ValTok(v) == [tok |-> "value", value |-> v]

IsScalarTok(k) == k.tok = "value"

RECURSIVE ParseElems(_)
\* the elements of a bracketed list: value ("," value)*
ParseElems(ts) ==
    IF Len(ts) = 0 THEN [ok |-> FALSE, elems |-> <<>>]
    ELSE IF ~IsScalarTok(ts[1]) THEN [ok |-> FALSE, elems |-> <<>>]
    ELSE IF Len(ts) = 1 THEN [ok |-> TRUE, elems |-> <<ts[1].value>>]
    ELSE IF ts[2] # Tok(",") THEN [ok |-> FALSE, elems |-> <<>>]
    ELSE LET rest == ParseElems(SubSeq(ts, 3, Len(ts)))
         IN  [ok |-> rest.ok, elems |-> <<ts[1].value>> \o rest.elems]

\* JSON.parse(rawJsonText): ok = FALSE stands for the SyntaxError it throws
ParseJson(ts) ==
    IF Len(ts) = 0 THEN [ok |-> FALSE, value |-> JsNull]
    ELSE IF Len(ts) = 1
         THEN IF IsScalarTok(ts[1]) THEN [ok |-> TRUE, value |-> ts[1].value]
              ELSE [ok |-> FALSE, value |-> JsNull]
    ELSE IF ts[1] = Tok("[") /\ ts[Len(ts)] = Tok("]")
         THEN IF Len(ts) = 2 THEN [ok |-> TRUE, value |-> JsArray(<<>>)]
              ELSE LET es == ParseElems(SubSeq(ts, 2, Len(ts) - 1))
                   IN  IF es.ok THEN [ok |-> TRUE, value |-> JsArray(es.elems)]
                       ELSE [ok |-> FALSE, value |-> JsNull]
    ELSE [ok |-> FALSE, value |-> JsNull]

RECURSIVE JoinElems(_)
JoinElems(es) ==
    IF Len(es) = 0 THEN <<>>
    ELSE IF Len(es) = 1 THEN <<ValTok(es[1])>>
    ELSE <<ValTok(es[1]), Tok(",")>> \o JoinElems(Tail(es))

\* the text the model endpoint writes for a value
Stringify(v) ==
    IF v.t = "array" THEN <<Tok("[")>> \o JoinElems(v.elems) \o <<Tok("]")>>
    ELSE <<ValTok(v)>>

SeqsUpTo(S, n) == UNION { [1..k -> S] : k \in 0..n }

FindingLists == SeqsUpTo(Findings, MaxFindings)

\* values the model endpoint may answer with
ModelValues ==
    {JsNull, JsNumber, JsArray(<<JsNull>>)} \cup { JsArray(fs) : fs \in FindingLists }

\* texts that are no JSON: free prose, and an array cut off in the middle
BadTexts == { <<Tok("oops")>>, <<Tok("["), ValTok(F1)>> }

\* every non-empty text the model endpoint may deliver
RawTexts == BadTexts \cup { Stringify(v) : v \in ModelValues }

(* What fetch() and response.json() give back.  net = "reject": fetch      *)
(* itself throws; "notOk": response.ok is false; "ok": a body arrives,     *)
(* with or without candidates[0].content.parts[0].text.                    *)
Responses ==
    { [net |-> n, candidate |-> FALSE, text |-> <<>>] : n \in {"reject", "notOk", "ok"} }
    \cup { [net |-> "ok", candidate |-> TRUE, text |-> t] : t \in {<<>>} \cup RawTexts }

DiffLengths == {0, 5, MinDiffSize - 1, MinDiffSize, MaxDiffLen}

\* diffResponse.data: absent, or a text of some length
DiffData ==
    {[present |-> FALSE, length |-> 0]}
    \cup { [present |-> TRUE, length |-> n] : n \in DiffLengths }

NoDiff == [present |-> FALSE, length |-> 0]

------------------------------------------------------------------------------
(* Errors and messages *)

Msg(m, raw) == [message |-> m, raw |-> raw]
Err(m, status) == [message |-> Msg(m, <<>>), status |-> status]

WrongEventMsg(im) ==
    IF im = "main"
    THEN Msg("This action is only available for pull requests!", <<>>)
    ELSE Msg("Diese Action ist nur fuer Pull Request Events vorgesehen.", <<>>)

\* variant: the raw text left out of the message
ExhaustedMsg_NoRaw(im, raw) ==
    Msg("Gemini API request has failed after multiple tries.", <<>>)

\* message of the Error thrown when i === 2
ExhaustedMsg(im, raw) ==
    IF im = "main"
    THEN Msg("Gemini API request has failed after multiple tries. Last raw response: ", raw)
    ELSE Msg("Gemini API-Aufruf oder JSON-Parsing nach mehreren Versuchen fehlgeschlagen. Letzte rohe Antwort: ", raw)

TypeErrorMsg == Msg("TypeError", <<>>)

GetErrors == { Err("Not Found", 404), Err("Bad credentials", 401) }
ReviewErrors == { Err("Unprocessable Entity", Unprocessable), Err("Server Error", 500),
                  Err("Forbidden", 403) }
CommentErrors == { Err("Forbidden", 403), Err("Unprocessable Entity", Unprocessable) }

NoError == [message |-> Msg("", <<>>), status |-> 200]

------------------------------------------------------------------------------
(* The model request *)

\* where the request carries the API key
RequestUrl(im) ==
    IF im = "main" THEN <<"models", Model, "generateContent">>
    ELSE <<"models", Model, "generateContent", "key", ApiKey>>

RequestHeaders(im) ==
    IF im = "main"
    THEN { <<"Content-Type", "application/json">>, <<"X-Goog-Api-Key", ApiKey>> }
    ELSE { <<"Content-Type", "application/json">> }

\* JSON.stringify(payload): user query with the diff, system prompt, schema
RequestBody(diff) ==
    [contents |-> diff.length, systemInstruction |-> "GEMINI_SYSTEM_PROMPT",
     responseMimeType |-> "application/json"]

------------------------------------------------------------------------------
(* The retry loop *)

\* candidate && candidate.content?.parts?.[0]?.text
DeliversText(r) == r.net = "ok" /\ r.candidate /\ r.text # <<>>

\* variant: the text is cleared by an attempt that delivers none
RawAfter_Reset(r, old) == IF DeliversText(r) THEN r.text ELSE <<>>

\* rawJsonText after the attempt
RawAfter(r, old) == IF DeliversText(r) THEN r.text ELSE old

\* variant: an empty array counts as a failure
AttemptSucceeds_NonEmpty(im, r) ==
    /\ DeliversText(r)
    /\ ParseJson(r.text).ok
    /\ ParseJson(r.text).value # JsNull
    /\ ParseJson(r.text).value # JsArray(<<>>)

\* the attempt leaves the loop with a value
AttemptSucceeds(im, r) ==
    /\ DeliversText(r)
    /\ ParseJson(r.text).ok
    \* main.js reads comments.length inside the try block
    /\ (im = "main" => ParseJson(r.text).value # JsNull)

\* variant: the text kept from an earlier attempt is the one parsed
CommentsAfter_Stale(r, old) ==
    ParseJson(IF old # <<>> THEN old ELSE r.text).value

\* rawJsonText = candidate.content.parts[0].text; JSON.parse(rawJsonText)
CommentsAfter(r, old) == ParseJson(RawAfter(r, old)).value

\* variant: the delay scaled by the zero-based counter
BackoffDelay_FromZero(n) == BackoffUnit * n

\* 2000 * (i + 1)
BackoffDelay(n) == BackoffUnit * (n + 1)

\* variants: the length test forgotten; the threshold one too low; no test
IsSignificant_NoLength(d) == d.present
IsSignificant_Always(d) == TRUE
IsSignificant_OffByOne(d) == d.present /\ ~(d.length < MinDiffSize - 1)

\* !codeDiff || codeDiff.length < 10 is false
IsSignificant(d) == d.present /\ ~(d.length < MinDiffSize)

------------------------------------------------------------------------------
(* The posting step *)

\* aiReviewComments.map(...) and .length throw a TypeError
MapThrows(v) ==
    IF v.t # "array" THEN TRUE
    ELSE \E k \in 1..Len(v.elems) : v.elems[k].t # "object"

\* variant: the line shifted as if it were zero-based
ToGithubComment_LineShift(c) == [path |-> c.path, line |-> c.line + 1, body |-> c.comment]

\* (c) => ({ path: c.path, line: c.line, body: c.comment })
ToGithubComment(c) == [path |-> c.path, line |-> c.line, body |-> c.comment]

GithubComments(v) == [k \in 1..Len(v.elems) |-> ToGithubComment(v.elems[k])]

\* variant: the empty list is not told apart
HasNoFindings_Never(gc) == Len(gc) < 0

\* githubComments.length === 0
HasNoFindings(gc) == Len(gc) = 0

\* variants: every failure, or every client error, starts the fallback
IsPlacementInvalid_AnyError(e) == e.status >= 400
IsPlacementInvalid_ClientError(e) == e.status \in 400..499

\* error.status === 422
IsPlacementInvalid(e) == e.status = Unprocessable

NoIssuesBody == [kind |-> "noIssues", count |-> 0, entries |-> <<>>]

\* `- **${c.path} (Line ${c.line}):** ${c.body}`
FallbackEntry(c) == <<c.path, c.line, c.body>>

\* variant: only the first finding is listed
FallbackBody_FirstOnly(gc) ==
    [kind |-> "fallback", count |-> Len(gc),
     entries |-> [k \in 1..1 |-> FallbackEntry(gc[k])]]

FallbackBody(gc) ==
    [kind |-> "fallback", count |-> Len(gc),
     entries |-> [k \in 1..Len(gc) |-> FallbackEntry(gc[k])]]

------------------------------------------------------------------------------
(* The invocation *)

IsPosting(c) == c.op \in {"pulls.createReview", "issues.createComment"}
PostingCalls == SelectSeq(calls, IsPosting)
IsFetch(c) == c.op = "fetch"
FetchCalls == SelectSeq(calls, IsFetch)

NoReference == [seen |-> FALSE, text |-> <<>>, findings |-> JsNull, posts |-> <<>>]

\* the finished invocation, if its first model call succeeded
Observation ==
    IF /\ Len(FetchCalls) = 1
       /\ AttemptSucceeds(impl, FetchCalls[1].response)
    THEN [seen |-> TRUE, text |-> FetchCalls[1].response.text,
          findings |-> aiReviewComments, posts |-> PostingCalls]
    ELSE reference

NoPeer == [seen |-> FALSE, event |-> "", trace |-> <<>>, outcome |-> ""]

\* which of the seven kinds of model response r is; an array holding a
\* non-object is kept apart from an array of findings
ResponseClass(r) ==
    IF r.net # "ok" THEN "httpFailure"
    ELSE IF ~r.candidate \/ r.text = <<>> THEN "noText"
    ELSE IF ~ParseJson(r.text).ok THEN "unparseable"
    ELSE IF ParseJson(r.text).value = JsNull THEN "null"
    ELSE IF ParseJson(r.text).value.t # "array" THEN "nonArray"
    ELSE IF ParseJson(r.text).value.elems = <<>> THEN "emptyArray"
    ELSE IF MapThrows(ParseJson(r.text).value) THEN "arrayOfNonObjects"
    ELSE "nonEmptyArray"

\* how the collaborator answered the call
AnswerClass(c) ==
    IF c.op = "fetch" THEN ResponseClass(c.response)
    ELSE IF c.op = "setTimeout" THEN "elapsed"
    ELSE IF c.op = "pulls.get"
         THEN IF c.error # NoError THEN "error"
              ELSE IF c.data.present /\ c.data.length >= MinDiffSize
                   THEN "significant" ELSE "insignificant"
    ELSE IF c.error = NoError THEN "accepted"
    ELSE IF c.error.status = Unprocessable /\ c.op = "pulls.createReview" THEN "422"
    ELSE "error"

\* the call and its answer as an observer of the run sees them
Observed(c) ==
    [op |-> c.op, ms |-> IF c.op = "setTimeout" THEN c.ms ELSE 0,
     ans |-> AnswerClass(c)]

Trace == [k \in 1..Len(calls) |-> Observed(calls[k])]

\* early exit, success or fatal failure of the finished invocation
Outcome ==
    IF failed # <<>> THEN "fatal"
    ELSE IF Len(FetchCalls) = 0 THEN "earlyExit"
    ELSE "success"

Init ==
    /\ impl \in Impls
    /\ eventName \in EventNames
    /\ pc = "initializeAction"
    /\ codeDiff = NoDiff
    /\ i = 0
    /\ rawJsonText = <<>>
    /\ aiReviewComments = JsArray(<<>>)
    /\ calls = <<>>
    /\ failed = <<>>
    /\ reference = NoReference
    /\ peer = NoPeer

\* variant: the catch block ends the run without reporting
SetFailed_Silent(msg) ==
    /\ pc' = "done"
    /\ UNCHANGED failed

\* catch (error) { core.setFailed(error.message); }
SetFailed(msg) ==
    /\ failed' = Append(failed, msg)
    /\ pc' = "done"

\* variant: push events are let through as well
IsPullRequestEvent_OrPush(ev) == ev \in {"pull_request", "push"}

\* github.context.eventName !== 'pull_request' is false
IsPullRequestEvent(ev) == ev = "pull_request"

\* initializeAction / the event check at the top of run()
InitializeAction ==
    /\ pc = "initializeAction"
    /\ IF ~IsPullRequestEvent(eventName)
       THEN SetFailed(WrongEventMsg(impl))
       ELSE pc' = "fetchCodeDiff" /\ UNCHANGED failed
    /\ UNCHANGED <<impl, eventName, codeDiff, i, rawJsonText, aiReviewComments, calls, reference, peer>>

\* fetchCodeDiff: pulls.get answers with the diff
FetchCodeDiff ==
    /\ pc = "fetchCodeDiff"
    /\ \E d \in DiffData :
        /\ calls' = Append(calls, [op |-> "pulls.get", error |-> NoError, data |-> d])
        /\ codeDiff' = d
        /\ IF ~IsSignificant(d)
           THEN pc' = "done"
           ELSE pc' = "getGeminiReview"
    /\ UNCHANGED <<impl, eventName, i, rawJsonText, aiReviewComments, failed, reference, peer>>

\* variant: the failure is taken for "no diff" and the run ends quietly
FetchCodeDiffFails_Swallowed ==
    /\ pc = "fetchCodeDiff"
    /\ \E e \in GetErrors :
        calls' = Append(calls, [op |-> "pulls.get", error |-> e, data |-> NoDiff])
    /\ pc' = "done"
    /\ UNCHANGED <<impl, eventName, codeDiff, i, rawJsonText, aiReviewComments,
                   failed, reference, peer>>

\* fetchCodeDiff: pulls.get throws
FetchCodeDiffFails ==
    /\ pc = "fetchCodeDiff"
    /\ \E e \in GetErrors :
        /\ calls' = Append(calls, [op |-> "pulls.get", error |-> e, data |-> NoDiff])
        /\ SetFailed(e.message)
    /\ UNCHANGED <<impl, eventName, codeDiff, i, rawJsonText, aiReviewComments, reference, peer>>

FetchCall(r) ==
    [op |-> "fetch", method |-> "POST", url |-> RequestUrl(impl), headers |-> RequestHeaders(impl),
     body |-> RequestBody(codeDiff), attempt |-> i + 1, response |-> r]

\* one pass of the retry loop that leaves it with a value
GeminiAttemptSucceeds ==
    /\ pc = "getGeminiReview"
    /\ \E r \in Responses :
        /\ AttemptSucceeds(impl, r)
        /\ calls' = Append(calls, FetchCall(r))
        /\ rawJsonText' = RawAfter(r, rawJsonText)
        /\ aiReviewComments' = CommentsAfter(r, rawJsonText)
        /\ pc' = "postReviewComments"
    /\ UNCHANGED <<impl, eventName, codeDiff, i, failed, reference, peer>>

\* one pass of the retry loop that ends in the catch block
GeminiAttemptFails ==
    /\ pc = "getGeminiReview"
    /\ \E r \in Responses :
        /\ ~AttemptSucceeds(impl, r)
        /\ calls' = Append(calls, FetchCall(r))
        /\ rawJsonText' = RawAfter(r, rawJsonText)
        /\ IF i = MaxTries - 1
           THEN SetFailed(ExhaustedMsg(impl, rawJsonText'))
           ELSE pc' = "backoff" /\ UNCHANGED failed
    /\ UNCHANGED <<impl, eventName, codeDiff, i, aiReviewComments, reference, peer>>

\* await new Promise((resolve) => setTimeout(resolve, 2000 * (i + 1))); i++
Backoff ==
    /\ pc = "backoff"
    /\ calls' = Append(calls, [op |-> "setTimeout", ms |-> BackoffDelay(i)])
    /\ i' = i + 1
    /\ pc' = "getGeminiReview"
    /\ UNCHANGED <<impl, eventName, codeDiff, rawJsonText, aiReviewComments, failed, reference, peer>>

\* the value from the model step is no array of objects: .length/.map throw
PostThrowsTypeError ==
    /\ pc = "postReviewComments"
    /\ MapThrows(aiReviewComments)
    /\ SetFailed(TypeErrorMsg)
    /\ UNCHANGED <<impl, eventName, codeDiff, i, rawJsonText, aiReviewComments, calls, reference, peer>>

CommentCall(body, e) ==
    [op |-> "issues.createComment", body |-> body, error |-> e]

\* githubComments.length === 0
PostNoIssuesComment ==
    /\ pc = "postReviewComments"
    /\ ~MapThrows(aiReviewComments)
    /\ HasNoFindings(GithubComments(aiReviewComments))
    /\ \E e \in {NoError} \cup CommentErrors :
        /\ calls' = Append(calls, CommentCall(NoIssuesBody, e))
        /\ IF e = NoError THEN pc' = "done" /\ UNCHANGED failed
           ELSE SetFailed(e.message)
    /\ UNCHANGED <<impl, eventName, codeDiff, i, rawJsonText, aiReviewComments, reference, peer>>

ReviewCall(gc, e) ==
    [op |-> "pulls.createReview", event |-> "COMMENT", count |-> Len(gc),
     comments |-> gc, error |-> e]

\* octokit.rest.pulls.createReview and its catch block up to the fallback
CreateReview ==
    /\ pc = "postReviewComments"
    /\ ~MapThrows(aiReviewComments)
    /\ ~HasNoFindings(GithubComments(aiReviewComments))
    /\ \E e \in {NoError} \cup ReviewErrors :
        /\ calls' = Append(calls, ReviewCall(GithubComments(aiReviewComments), e))
        /\ IF e = NoError THEN pc' = "done" /\ UNCHANGED failed
           ELSE IF IsPlacementInvalid(e) THEN pc' = "fallback" /\ UNCHANGED failed
           ELSE SetFailed(e.message)
    /\ UNCHANGED <<impl, eventName, codeDiff, i, rawJsonText, aiReviewComments, reference, peer>>

\* variant: a failure of the fallback comment is only logged
PostFallbackComment_Swallowed ==
    /\ pc = "fallback"
    /\ \E e \in {NoError} \cup CommentErrors :
        calls' = Append(calls,
                CommentCall(FallbackBody(GithubComments(aiReviewComments)), e))
    /\ pc' = "done"
    /\ UNCHANGED <<impl, eventName, codeDiff, i, rawJsonText, aiReviewComments,
                   failed, reference, peer>>

\* FALLBACK: the whole review as one issue comment
PostFallbackComment ==
    /\ pc = "fallback"
    /\ \E e \in {NoError} \cup CommentErrors :
        /\ calls' = Append(calls,
                CommentCall(FallbackBody(GithubComments(aiReviewComments)), e))
        /\ IF e = NoError THEN pc' = "done" /\ UNCHANGED failed
           ELSE SetFailed(e.message)
    /\ UNCHANGED <<impl, eventName, codeDiff, i, rawJsonText, aiReviewComments, reference, peer>>

\* the next trigger event starts run() afresh
Invoke ==
    /\ pc = "done"
    /\ reference' = Observation
    /\ eventName' \in EventNames
    /\ pc' = "initializeAction"
    /\ codeDiff' = NoDiff
    /\ i' = 0
    /\ rawJsonText' = <<>>
    /\ aiReviewComments' = JsArray(<<>>)
    /\ calls' = <<>>
    /\ failed' = <<>>
    /\ UNCHANGED <<impl, peer>>

\* the monolithic pipeline is started on the event the modular one handled
InvokePeer ==
    /\ pc = "done"
    /\ impl = "main"
    /\ impl' = "legacy"
    /\ peer' = [seen |-> TRUE, event |-> eventName, trace |-> Trace,
                outcome |-> Outcome]
    /\ pc' = "initializeAction"
    /\ codeDiff' = NoDiff
    /\ i' = 0
    /\ rawJsonText' = <<>>
    /\ aiReviewComments' = JsArray(<<>>)
    /\ calls' = <<>>
    /\ failed' = <<>>
    /\ UNCHANGED <<eventName, reference>>

Next ==
    \/ InitializeAction
    \/ FetchCodeDiff
    \/ FetchCodeDiffFails
    \/ GeminiAttemptSucceeds
    \/ GeminiAttemptFails
    \/ Backoff
    \/ PostThrowsTypeError
    \/ PostNoIssuesComment
    \/ CreateReview
    \/ PostFallbackComment

Spec == Init /\ [][Next]_vars

\* every awaited call and every backoff timer eventually completes
SpecLive == Spec /\ WF_vars(Next)

\* successive invocations of the same action
NextRuns == Next \/ Invoke

SpecRuns == Init /\ [][NextRuns]_vars

\* both pipelines of the repository on the same event
NextPair == Next \/ InvokePeer

SpecPair == Init /\ [][NextPair]_vars

------------------------------------------------------------------------------
(* Observations on the call log *)

CallsOf(op) == { k \in 1..Len(calls) : calls[k].op = op }
NumCalls(op) == Cardinality(CallsOf(op))

Done == pc = "done"
NoFatal == failed = <<>>

IsAccepted(c) == c.error = NoError
AcceptedPosts == SelectSeq(PostingCalls, IsAccepted)

\* pulls.get answered with a diff that is absent or below the threshold
InsignificantDiff ==
    \E k \in CallsOf("pulls.get") :
        /\ calls[k].error = NoError
        /\ (~calls[k].data.present \/ calls[k].data.length < MinDiffSize)

\* the findings lists whose text the last model call delivered
DeliveredLists ==
    IF Len(FetchCalls) = 0 THEN {}
    ELSE { fs \in FindingLists :
             /\ FetchCalls[Len(FetchCalls)].response.net = "ok"
             /\ FetchCalls[Len(FetchCalls)].response.candidate
             /\ FetchCalls[Len(FetchCalls)].response.text = Stringify(JsArray(fs)) }

TypeOK ==
    /\ impl \in Impls
    /\ pc \in {"initializeAction", "fetchCodeDiff", "getGeminiReview", "backoff",
               "postReviewComments", "fallback", "done"}
    /\ i \in 0..(MaxTries - 1)
    /\ Len(failed) <= 1

------------------------------------------------------------------------------
(* C1 as stated: every invocation that ends without core.setFailed has made *)
(* exactly one accepted outward communication.                              *)
C1_Original == (Done /\ NoFatal) => Len(AcceptedPosts) = 1

(* C1 amended: an invocation that ends without core.setFailed has made no   *)
(* posting call at all when the fetched diff was absent or below the        *)
(* threshold, and otherwise exactly one accepted communication, which is    *)
(* its last call: a no-issues comment, an inline review, or a fallback      *)
(* comment after the one rejected review.                                   *)
C1_Amended ==
    (Done /\ NoFatal) =>
        IF InsignificantDiff THEN Len(PostingCalls) = 0
        ELSE /\ Len(AcceptedPosts) = 1
             /\ calls[Len(calls)] = AcceptedPosts[1]
             /\ \/ /\ Len(PostingCalls) = 1
                   /\ AcceptedPosts[1].op = "pulls.createReview"
                \/ /\ Len(PostingCalls) = 1
                   /\ AcceptedPosts[1].op = "issues.createComment"
                   /\ AcceptedPosts[1].body.kind = "noIssues"
                \/ /\ Len(PostingCalls) = 2
                   /\ PostingCalls[1].op = "pulls.createReview"
                   /\ AcceptedPosts[1].op = "issues.createComment"
                   /\ AcceptedPosts[1].body.kind = "fallback"

C1_Witness ==
    /\ Done /\ NoFatal /\ ~InsignificantDiff
    /\ Len(PostingCalls) = 2 /\ Len(AcceptedPosts) = 1

(* C2: when pulls.createReview is accepted, it is the only createReview    *)
(* call, its event is COMMENT, its comments are the delivered findings in   *)
(* the same number and order with path, line and body equal to path, line   *)
(* and comment, and no issues.createComment call is made.                   *)
C2_Theorem ==
    \A k \in CallsOf("pulls.createReview") :
        calls[k].error = NoError =>
            /\ NumCalls("pulls.createReview") = 1
            /\ NumCalls("issues.createComment") = 0
            /\ calls[k].event = "COMMENT"
            /\ \E fs \in DeliveredLists :
                /\ Len(fs) > 0
                /\ Len(calls[k].comments) = Len(fs)
                /\ \A j \in 1..Len(fs) :
                    /\ calls[k].comments[j].path = fs[j].path
                    /\ calls[k].comments[j].line = fs[j].line
                    /\ calls[k].comments[j].body = fs[j].comment

C2_Witness ==
    \E k \in CallsOf("pulls.createReview") :
        /\ calls[k].error = NoError
        /\ Len(calls[k].comments) = MaxFindings
        /\ calls[k].comments[1] # calls[k].comments[2]

(* C3: when pulls.createReview is rejected with status 422, it is the only *)
(* createReview call, nothing of it was accepted, exactly one               *)
(* issues.createComment call follows it, whose body lists path, line and    *)
(* comment of every delivered finding in order, and when that comment is    *)
(* accepted the invocation ends without core.setFailed.                     *)
C3_Theorem ==
    \A k \in CallsOf("pulls.createReview") :
        calls[k].error.status = Unprocessable =>
            /\ NumCalls("pulls.createReview") = 1
            /\ IF k = Len(calls) THEN pc = "fallback" /\ NoFatal
               ELSE /\ Done
                    /\ Len(calls) = k + 1
                    /\ calls[k + 1].op = "issues.createComment"
                    /\ calls[k + 1].body.kind = "fallback"
                    /\ \E fs \in DeliveredLists :
                        /\ Len(fs) > 0
                        /\ Len(calls[k + 1].body.entries) = Len(fs)
                        /\ \A j \in 1..Len(fs) :
                            calls[k + 1].body.entries[j]
                                = <<fs[j].path, fs[j].line, fs[j].comment>>
                    /\ (calls[k + 1].error = NoError => NoFatal)

C3_Witness ==
    /\ Done /\ NoFatal
    /\ \E k \in CallsOf("pulls.createReview") :
        /\ calls[k].error.status = Unprocessable
        /\ k < Len(calls)
        /\ Len(calls[k + 1].body.entries) = MaxFindings

\* a model call delivered the text of the empty list
EmptyListDelivered ==
    \E k \in CallsOf("fetch") :
        /\ calls[k].response.net = "ok"
        /\ calls[k].response.candidate
        /\ calls[k].response.text = <<Tok("["), Tok("]")>>

(* C4: after a model response that parses to the empty findings list,       *)
(* pulls.createReview is never called and the one posting call made is an   *)
(* issues.createComment carrying the no-issues message.                     *)
C4_Theorem ==
    EmptyListDelivered =>
        /\ NumCalls("pulls.createReview") = 0
        /\ IF Done
           THEN /\ NumCalls("issues.createComment") = 1
                /\ calls[Len(calls)].op = "issues.createComment"
                /\ calls[Len(calls)].body = NoIssuesBody
           ELSE pc = "postReviewComments" /\ Len(PostingCalls) = 0

C4_Witness ==
    /\ EmptyListDelivered /\ Done /\ NoFatal
    /\ NumCalls("issues.createComment") = 1

(* C5: when the fetched diff is absent, empty or shorter than 10            *)
(* characters, the invocation has ended without core.setFailed, having made *)
(* no model call and no posting call.                                       *)
C5_Theorem ==
    InsignificantDiff =>
        /\ Done /\ NoFatal
        /\ NumCalls("fetch") = 0
        /\ NumCalls("setTimeout") = 0
        /\ Len(PostingCalls) = 0

C5_Witness ==
    /\ Done
    /\ \E k \in CallsOf("pulls.get") :
        calls[k].data.present /\ calls[k].data.length = MinDiffSize - 1

------------------------------------------------------------------------------
IsTimeout(c) == c.op = "setTimeout"
TimeoutCalls == SelectSeq(calls, IsTimeout)
Delays == [k \in 1..Len(TimeoutCalls) |-> TimeoutCalls[k].ms]

\* the try block of the attempt that made call k ended in the catch block
AttemptFailed(k) == ~AttemptSucceeds(impl, calls[k].response)

(* C6: a failed attempt n in {1, 2} is followed by one delay of exactly     *)
(* 2000 * n ms and then by attempt n + 1; no delay follows attempt 3 or a   *)
(* successful attempt; a call that succeeds on attempt 3 has incurred the   *)
(* delays 2000 ms, 4000 ms in that order.                                   *)
C6_Theorem ==
    /\ \A k \in CallsOf("fetch") :
        IF AttemptFailed(k) /\ calls[k].attempt \in {1, 2}
        THEN IF k = Len(calls) THEN pc = "backoff"
             ELSE /\ calls[k + 1].op = "setTimeout"
                  /\ calls[k + 1].ms = 2000 * calls[k].attempt
        ELSE /\ pc # "backoff"
             /\ k < Len(calls) => calls[k + 1].op # "setTimeout"
    /\ \A k \in CallsOf("setTimeout") :
        /\ k > 1
        /\ calls[k - 1].op = "fetch"
        /\ IF k = Len(calls) THEN pc = "getGeminiReview"
           ELSE /\ calls[k + 1].op = "fetch"
                /\ calls[k + 1].attempt = calls[k - 1].attempt + 1
    /\ \A k \in CallsOf("fetch") :
        (calls[k].attempt = 3 /\ ~AttemptFailed(k)) => Delays = <<2000, 4000>>

C6_Witness ==
    /\ pc = "postReviewComments"
    /\ Len(FetchCalls) = 3
    /\ Delays = <<2000, 4000>>

\* the text of the most recent model call that delivered one
LastDeliveredText ==
    LET ks == { k \in 1..Len(FetchCalls) : FetchCalls[k].response.text # <<>> }
    IN  IF ks = {} THEN <<>>
        ELSE FetchCalls[CHOOSE k \in ks : \A j \in ks : j <= k].response.text

Exhausted ==
    /\ Len(FetchCalls) = 3
    /\ ~AttemptSucceeds(impl, FetchCalls[3].response)

(* C7: when all 3 model-call attempts have failed, the invocation has ended *)
(* with one core.setFailed whose message carries the last raw response      *)
(* text, and no posting call was made.                                      *)
C7_Theorem ==
    Exhausted =>
        /\ Done
        /\ Len(failed) = 1
        /\ failed[1].raw = LastDeliveredText
        /\ failed[1] # TypeErrorMsg
        /\ Len(PostingCalls) = 0

C7_Witness ==
    /\ Exhausted /\ Done
    /\ FetchCalls[3].response.text # <<>>
    /\ failed[1].raw = FetchCalls[3].response.text

Min(a, b) == IF a < b THEN a ELSE b

\* what a posting call sent, without the collaborator's answer
RequestOf(c) ==
    [op |-> c.op,
     payload |-> IF c.op = "pulls.createReview"
                 THEN [event |-> c.event, comments |-> c.comments]
                 ELSE [body |-> c.body]]

\* the current invocation got on attempt 3, after two failures, the text
\* that the reference invocation got on attempt 1
RetriedSameText ==
    /\ reference.seen
    /\ Len(FetchCalls) = 3
    /\ AttemptSucceeds(impl, FetchCalls[3].response)
    /\ FetchCalls[3].response.text = reference.text

SameAnswers(n) ==
    \A j \in 1..n : PostingCalls[j].error = reference.posts[j].error

(* C8: a model call whose first two attempts fail and whose third attempt   *)
(* delivers the text F yields the same findings as an invocation whose      *)
(* first attempt delivered F, and, as long as the collaborator answers the  *)
(* same, makes the same posting calls.                                      *)
C8_Theorem ==
    RetriedSameText =>
        /\ aiReviewComments = reference.findings
        /\ \A k \in 1..Min(Len(PostingCalls), Len(reference.posts)) :
            SameAnswers(k - 1) =>
                RequestOf(PostingCalls[k]) = RequestOf(reference.posts[k])
        /\ (Done /\ SameAnswers(Min(Len(PostingCalls), Len(reference.posts))))
                => PostingCalls = reference.posts

C8_Witness ==
    /\ RetriedSameText /\ Done
    /\ Len(PostingCalls) = 2
    /\ PostingCalls = reference.posts
    /\ aiReviewComments.t = "array"

\* the response carries the text of an array of findings
IsFindingsResponse(r) ==
    /\ r.net = "ok"
    /\ r.candidate
    /\ \E fs \in FindingLists : r.text = Stringify(JsArray(fs))

(* C9: the model endpoint receives at most 3 POSTs, the k-th being attempt  *)
(* k; no model call and no delay follows an attempt that succeeded, and an  *)
(* attempt that delivered an array of findings, the empty one included, is  *)
(* the last one.                                                            *)
C9_Theorem ==
    /\ Len(FetchCalls) <= 3
    /\ \A k \in 1..Len(FetchCalls) :
        /\ FetchCalls[k].attempt = k
        /\ FetchCalls[k].method = "POST"
        /\ (\/ IsFindingsResponse(FetchCalls[k].response)
            \/ AttemptSucceeds(impl, FetchCalls[k].response))
            => /\ k = Len(FetchCalls)
               /\ pc \notin {"getGeminiReview", "backoff"}
               /\ calls[Len(calls)].op # "setTimeout"

C9_Witness ==
    /\ Done
    /\ Len(FetchCalls) = 2
    /\ FetchCalls[2].response.text = <<Tok("["), Tok("]")>>
    /\ Len(PostingCalls) = 1

(* C10: an attempt whose response is unsuccessful, has no usable text, or   *)
(* whose text is not a JSON array of findings counts as failed: it is       *)
(* followed by a delay or by the exhaustion error, never by the posting     *)
(* step.                                                                    *)
C10_Claim ==
    \A k \in CallsOf("fetch") :
        ~IsFindingsResponse(calls[k].response) =>
            IF k < Len(calls) THEN calls[k + 1].op = "setTimeout"
            ELSE \/ pc = "backoff"
                 \/ pc = "done" /\ calls[k].attempt = 3 /\ failed # <<TypeErrorMsg>>

------------------------------------------------------------------------------
(* C11: when pulls.createReview fails with a status other than 422, it is   *)
(* the last call of the invocation: no issues.createComment is made, and    *)
(* the invocation has ended with one core.setFailed carrying that error's   *)
(* message.                                                                 *)
C11_Theorem ==
    \A k \in CallsOf("pulls.createReview") :
        (calls[k].error # NoError /\ calls[k].error.status # 422) =>
            /\ k = Len(calls)
            /\ Done
            /\ failed = <<calls[k].error.message>>
            /\ NumCalls("issues.createComment") = 0
            /\ NumCalls("pulls.createReview") = 1

C11_Witness ==
    /\ Done
    /\ \E k \in CallsOf("pulls.createReview") :
        /\ calls[k].error.status = 500
        /\ failed = <<calls[k].error.message>>

(* C12: when the event is not "pull_request", the first step of the         *)
(* invocation ends it with one core.setFailed, and no pulls.get, model or   *)
(* posting call is ever made.                                               *)
C12_Theorem ==
    eventName # "pull_request" =>
        /\ calls = <<>>
        /\ \/ pc = "initializeAction" /\ failed = <<>>
           \/ Done /\ Len(failed) = 1 /\ failed[1] = WrongEventMsg(impl)

C12_Witness ==
    /\ eventName = "push"
    /\ Done
    /\ Len(failed) = 1

(* C13: when pulls.get fails it is the only call of the invocation (no      *)
(* retry, no model call, no posting call) and the invocation has ended      *)
(* with one core.setFailed carrying the error's message.                    *)
C13_Theorem ==
    \A k \in CallsOf("pulls.get") :
        calls[k].error # NoError =>
            /\ NumCalls("pulls.get") = 1
            /\ Len(calls) = 1
            /\ Done
            /\ failed = <<calls[k].error.message>>

C13_Witness ==
    /\ Done
    /\ Len(calls) = 1
    /\ calls[1].op = "pulls.get"
    /\ calls[1].error.status = 401
    /\ Len(failed) = 1

(* C14: in every model call the API key is carried in a request header and  *)
(* appears neither in the request URL nor in the request body.              *)
C14_Claim ==
    \A k \in CallsOf("fetch") :
        /\ \E h \in calls[k].headers : h[2] = ApiKey
        /\ \A j \in 1..Len(calls[k].url) : calls[k].url[j] # ApiKey
        /\ calls[k].body.systemInstruction # ApiKey
        /\ calls[k].body.responseMimeType # ApiKey

------------------------------------------------------------------------------
\* calls of the given operation that the collaborator answered with an error
FailedCallsOf(op) == { k \in CallsOf(op) : calls[k].error # NoError }

\* the posting step threw on a value that is no array of objects
PostingThrew ==
    /\ Done
    /\ Len(FetchCalls) > 0
    /\ AttemptSucceeds(impl, FetchCalls[Len(FetchCalls)].response)
    /\ MapThrows(aiReviewComments)

\* the messages of the failures the stages have raised to run(): failures
\* handled inside a stage (a retried attempt, the 422 of createReview) are
\* not among them
RaisedFailures ==
    (IF eventName # "pull_request" /\ pc # "initializeAction"
        THEN {WrongEventMsg(impl)} ELSE {})
    \cup { calls[k].error.message : k \in FailedCallsOf("pulls.get") }
    \cup (IF Exhausted THEN {ExhaustedMsg(impl, LastDeliveredText)} ELSE {})
    \cup { calls[k].error.message :
             k \in { j \in FailedCallsOf("pulls.createReview") :
                       calls[j].error.status # 422 } }
    \cup { calls[k].error.message : k \in FailedCallsOf("issues.createComment") }
    \cup (IF PostingThrew THEN {TypeErrorMsg} ELSE {})

(* C15: core.setFailed is called at most once, only as the last step of the *)
(* invocation, and the messages it was called with are exactly the messages *)
(* of the failures raised to run() by initialisation, diff fetch, model     *)
(* call, review post and fallback comment post: one call with that          *)
(* failure's message when a stage failed, none when no stage failed.        *)
C15_Theorem ==
    /\ Len(failed) <= 1
    /\ failed # <<>> => Done
    /\ { failed[k] : k \in 1..Len(failed) } = RaisedFailures

C15_Witness ==
    /\ Done
    /\ Len(failed) = 1
    /\ Len(PostingCalls) = 2
    /\ PostingCalls[1].error.status = 422
    /\ failed = <<PostingCalls[2].error.message>>

(* C16: pulls.createReview is called at most once and issues.createComment  *)
(* at most once per invocation, and when both are called the createComment  *)
(* call comes directly after the createReview call, which was rejected with *)
(* status 422.                                                              *)
C16_Theorem ==
    /\ NumCalls("pulls.createReview") <= 1
    /\ NumCalls("issues.createComment") <= 1
    /\ \A k \in CallsOf("issues.createComment") :
        \A j \in CallsOf("pulls.createReview") :
            /\ k = j + 1
            /\ calls[j].error.status = 422

C16_Witness ==
    /\ NumCalls("pulls.createReview") = 1
    /\ NumCalls("issues.createComment") = 1
    /\ Done

------------------------------------------------------------------------------
(* C17: the pipeline is ordered fetch, request-with-retry, post: pulls.get  *)
(* is the first call; every model call comes after a pulls.get that         *)
(* returned a diff of at least 10 characters; every posting call comes      *)
(* after a model-call attempt that succeeded, which is the last model call; *)
(* and after a posting call only posting calls follow.                      *)
C17_Theorem ==
    /\ \A k \in CallsOf("pulls.get") : k = 1
    /\ \A k \in CallsOf("fetch") \cup CallsOf("setTimeout") :
        /\ k > 1
        /\ calls[1].op = "pulls.get"
        /\ calls[1].error = NoError
        /\ calls[1].data.present
        /\ calls[1].data.length >= 10
    /\ \A k \in 1..Len(calls) :
        IsPosting(calls[k]) =>
            /\ \E j \in 1..(k - 1) :
                /\ calls[j].op = "fetch"
                /\ AttemptSucceeds(impl, calls[j].response)
                /\ \A m \in (j + 1)..Len(calls) : IsPosting(calls[m])
            /\ \A m \in (k + 1)..Len(calls) : IsPosting(calls[m])

C17_Witness ==
    /\ Done
    /\ Len(calls) = 8
    /\ calls[1].op = "pulls.get"
    /\ calls[6].op = "fetch"
    /\ calls[7].op = "pulls.createReview"
    /\ calls[8].op = "issues.createComment"

(* C18: when every awaited call and every backoff timer completes, every    *)
(* invocation eventually reaches its end, having made at most 1 diff fetch, *)
(* at most 3 model calls, at most 2 backoff delays and at most 2 posting    *)
(* calls.                                                                   *)
C18_Theorem ==
    /\ <>Done
    /\ [](/\ NumCalls("pulls.get") <= 1
          /\ NumCalls("fetch") <= 3
          /\ NumCalls("setTimeout") <= 2
          /\ Len(PostingCalls) <= 2)

C18_Witness ==
    /\ Done
    /\ NumCalls("pulls.get") = 1
    /\ NumCalls("fetch") = 3
    /\ NumCalls("setTimeout") = 2
    /\ Len(PostingCalls) = 2

\* the text carried by the k-th model response, empty when it carried none
TextOf(k) == FetchCalls[k].response.text

(* C19: the raw text in the retry-exhaustion message is the text of the     *)
(* most recent attempt that delivered a non-empty text: that of attempt 3   *)
(* if it delivered one, else that of attempt 2, else that of attempt 1,     *)
(* and the empty string when no attempt delivered text.                     *)
C19_Theorem ==
    (Exhausted /\ Done) =>
        /\ Len(failed) = 1
        /\ failed[1].raw =
              IF TextOf(3) # <<>> THEN TextOf(3)
              ELSE IF TextOf(2) # <<>> THEN TextOf(2)
              ELSE TextOf(1)

C19_Witness ==
    /\ Exhausted /\ Done
    /\ TextOf(1) = <<Tok("oops")>>
    /\ FetchCalls[2].response.net = "notOk"
    /\ FetchCalls[3].response.net = "ok" /\ ~FetchCalls[3].response.candidate
    /\ failed[1].raw = <<Tok("oops")>>

(* C20: when an issues.createComment call fails, be it the no-issues        *)
(* comment or the fallback comment after a 422, it is the last call of the  *)
(* invocation, which has ended with one core.setFailed carrying that        *)
(* error's message and with no accepted outward communication.              *)
C20_Theorem ==
    \A k \in FailedCallsOf("issues.createComment") :
        /\ k = Len(calls)
        /\ Done
        /\ failed = <<calls[k].error.message>>
        /\ Len(AcceptedPosts) = 0
        /\ \/ calls[k].body.kind = "noIssues" /\ Len(PostingCalls) = 1
           \/ /\ calls[k].body.kind = "fallback"
              /\ Len(PostingCalls) = 2
              /\ PostingCalls[1].error.status = 422

C20_Witness ==
    /\ Done
    /\ Len(PostingCalls) = 2
    /\ PostingCalls[2].op = "issues.createComment"
    /\ PostingCalls[2].error.status = 403
    /\ Len(failed) = 1

------------------------------------------------------------------------------
\* the collaborators answered the first n calls of this invocation as they
\* answered those of the modular pipeline
SamePeerAnswers(n) ==
    \A j \in 1..n : Trace[j].ans = peer.trace[j].ans

(* C21: on the same event type and the same answers of the collaborators    *)
(* (diff, model responses by kind, review and comment results) the          *)
(* monolithic pipeline makes the same sequence of pulls.get, model, delay,  *)
(* createReview and createComment calls as the modular one and ends in the  *)
(* same outcome.                                                            *)
C21_Claim ==
    (peer.seen /\ impl = "legacy" /\ peer.event = eventName) =>
        /\ \A k \in 1..Min(Len(calls), Len(peer.trace)) :
            SamePeerAnswers(k - 1) =>
                /\ Trace[k].op = peer.trace[k].op
                /\ Trace[k].ms = peer.trace[k].ms
        /\ (Done /\ SamePeerAnswers(Min(Len(calls), Len(peer.trace)))) =>
                /\ Len(calls) = Len(peer.trace)
                /\ Outcome = peer.outcome

\* the same, as long as no model response is the JSON text null
C21_ExceptNull ==
    (\A k \in 1..Len(peer.trace) : peer.trace[k].ans # "null") => C21_Claim

====
